---- MODULE Spec2Model ----
(***************************************************************************)
(* Kingdom Secrets: the game state machine of the App component, its       *)
(* persistent store adapter, history archive and session snapshot.         *)
(*                                                                         *)
(* React semantics assumed throughout: state updates made by one handler   *)
(* run (the synchronous part of a handler, or the continuation after an    *)
(* await) are batched and committed in one render; the effects of that     *)
(* render run before the next event is handled; an async handler keeps the *)
(* state values of the render it was invoked in (its closure) across the   *)
(* await, while functional updates and refs see the latest values.         *)
(***************************************************************************)
EXTENDS Integers, Sequences, FiniteSets, TLC

VARIABLES
  gameState,        \* useState<GameState>
  currentPuzzle,    \* useState<Puzzle | null>
  history,          \* useState<Interaction[]>: the transcript
  input,            \* useState<string>
  isLoading,        \* useState<boolean>
  hintsRemaining,   \* useState<number>
  hintIndex,        \* useState<number>
  historyLog,       \* useState<HistoryEntry[]>: the archive in memory
  error,            \* useState<string | null>
  lastAction,       \* useState<{type, input?} | null>
  isProcessingRef,  \* useRef(false)
  store,            \* localStorage: the keys kingdom_secrets_history / _session
  pending,          \* oracle requests issued and not yet returned, with the closure of the issuing handler
  timers,           \* number of scheduled setTimeout(() => setGameState(FINISHED), 1200) callbacks
  reqCount,         \* number of oracle requests issued so far in this run
  now,              \* Date.now()
  lastSave,         \* the last snapshot saveGameSession wrote, as it was in memory
  lastLoad,         \* what the last loadGameSession found in the store, and when
  client,           \* the oracle client operation in progress (geminiService.ts)
  setCall,          \* the last safeLocalStorageSet call: arguments, setItem calls, result
  typed,            \* sanitizeInput: the text of e.target.value and what it was sanitized to
  storeFull         \* localStorage has no room left: its writes of new values fail

\* The state of the components that are also exercised on their own: the
\* clock and the session round trip, the oracle client, the store adapter.
compVars == <<now, lastSave, lastLoad, client, setCall, typed, storeFull>>

vars == <<gameState, currentPuzzle, history, input, isLoading, hintsRemaining,
          hintIndex, historyLog, error, lastAction, isProcessingRef, store,
          pending, timers, reqCount, now, lastSave, lastLoad, client, setCall, typed,
          storeFull>>

----------------------------------------------------------------------------
(* Bounds *)

MaxRequests == 2        \* oracle requests issued in one run
ClockStart == 1         \* the clock's reading when the page is first loaded
MaxParts == 3           \* fragments a typed text is put together from

----------------------------------------------------------------------------
(* Program constants *)

HistoryCap == 50      \* saveToHistory: .slice(0, 50)
TrimKeep == 10        \* safeLocalStorageSet: parsed.slice(0, 10)
SessionTTL == 3600000 \* loadGameSession: Date.now() - timestamp < 3600000
maxRetries == 3       \* generateNewPuzzle, generateHint, evaluateInteraction

NoPuzzle == [title |-> 0, difficulty |-> "none"]   \* currentPuzzle === null
Null == "null"                                      \* error === null
NoAction == [type |-> "none", input |-> <<>>]       \* lastAction === null

\* localStorage.getItem(key) === null. The program never writes an empty
\* archive, so the empty sequence stands for a missing history key.
NoHistory == <<>>
NoSession ==
  [gameState |-> "absent", currentPuzzle |-> NoPuzzle, history |-> <<>>, input |-> <<>>,
   hintsRemaining |-> 0, hintIndex |-> 0, timestamp |-> 0]
Absent(key) == IF key = "history" THEN NoHistory ELSE NoSession

Difficulties == {"Easy", "Medium", "Hard"}

\* enum GameState (types.ts)
GameStates == {"MENU", "RULES", "LOADING", "PLAYING", "FINISHED", "HISTORY"}

\* A hint budget that does not depend on the difficulty
BudgetFlat(d) == 5
\* { 'Easy': 3, 'Medium': 5, 'Hard': 7 }[difficulty]
Budget(d) == CASE d = "Easy" -> 3 [] d = "Medium" -> 5 [] d = "Hard" -> 7

\* Texts the player can have in the input field (strings as sequences of characters).
Texts == {<<>>, <<" ">>, <<"a">>}

IsSpace(c) == c = " "

\* String.prototype.trim
RECURSIVE Trim(_)
Trim(t) ==
  IF t = <<>> THEN <<>>
  ELSE IF IsSpace(Head(t)) THEN Trim(Tail(t))
  ELSE IF IsSpace(t[Len(t)]) THEN Trim(SubSeq(t, 1, Len(t) - 1))
  ELSE t

Min(a, b) == IF a < b THEN a ELSE b

\* Array.prototype.slice(0, n)
Slice(s, n) == SubSeq(s, 1, Min(n, Len(s)))

\* Array.prototype.filter(p).length
RECURSIVE CountType(_, _)
CountType(h, types) ==
  IF h = <<>> THEN 0
  ELSE (IF Head(h).type \in types THEN 1 ELSE 0) + CountType(Tail(h), types)

RemoveAt(s, i) == SubSeq(s, 1, i - 1) \o SubSeq(s, i + 1, Len(s))

----------------------------------------------------------------------------
(* Persistent store adapter *)

\* What the underlying localStorage does during one safeLocalStorageSet call:
\* the result of the first setItem, of getItem and JSON.parse in the cleanup
\* block, of the trimming setItem and of the retried setItem. "quota" is a
\* DOMException the code recognises as quota-exceeded, "other" any other throw.
SetItemResults == {"ok", "quota", "other"}
WriteOutcomes ==
  [first : SetItemResults, get : {"ok", "throws"}, trim : SetItemResults,
   retry : SetItemResults]

\* A store with room: nothing throws.
RoomyStore == [first |-> "ok", get |-> "ok", trim |-> "ok", retry |-> "ok"]

SetItem(st, key, value) == [st EXCEPT ![key] = value]
RemoveItem(st, key) == [st EXCEPT ![key] = Absent(key)]

\* One localStorage.setItem call as the adapter's log records it.
SetItemCall(role, key, value, result) ==
  [role |-> role, key |-> key, value |-> value, result |-> result]

\* TrimmedHistory keeping the oldest entries
TrimmedHistoryOldest(h) == SubSeq(h, Len(h) - TrimKeep + 1, Len(h))
\* parsed.slice(0, 10) (line 100)
TrimmedHistory(h) == Slice(h, TrimKeep)

\* Array.isArray(parsed) && parsed.length > 10 (line 98)
NeedsTrim(st) == st.history # NoHistory /\ Len(st.history) > TrimKeep

\* TrimStoredHistory making room by dropping the session snapshot as well
TrimStoredHistoryAndSession(st) ==
  IF NeedsTrim(st)
  THEN RemoveItem(SetItem(st, "history", TrimmedHistory(st.history)), "session")
  ELSE st
\* The store after the cleanup block of safeLocalStorageSet (lines 95-104),
\* when its own setItem does not throw.
TrimStoredHistory(st) ==
  IF NeedsTrim(st)
  THEN SetItem(st, "history", TrimmedHistory(st.history))
  ELSE st

\* The body of the inner try (lines 95-107): the store afterwards, the setItem
\* calls made, and how the block completes: by `return true` or by a throw.
CleanupAndRetry(st, key, value, w) ==
  IF w.get = "throws"
  THEN [store |-> st, calls |-> <<>>, completion |-> "throw"]
  ELSE LET trimCall == SetItemCall("trim", "history", TrimmedHistory(st.history), w.trim)
           retryCall == SetItemCall("retry", key, value, w.retry)
       IN IF NeedsTrim(st) /\ w.trim # "ok"
          THEN [store |-> st, calls |-> <<trimCall>>, completion |-> "throw"]
          ELSE [store |-> IF w.retry = "ok"
                          THEN SetItem(TrimStoredHistory(st), key, value)
                          ELSE TrimStoredHistory(st),
                calls |-> (IF NeedsTrim(st) THEN <<trimCall>> ELSE <<>>) \o <<retryCall>>,
                completion |-> IF w.retry = "ok" THEN "return true" ELSE "throw"]

\* CatchRetryError letting the throw escape
RethrowRetryError(r) ==
  [store |-> r.store, calls |-> r.calls, ok |-> r.completion = "return true",
   threw |-> r.completion = "throw"]
\* catch (retryError) { ...; return false } (lines 107-110)
CatchRetryError(r) ==
  [store |-> r.store, calls |-> r.calls, ok |-> r.completion = "return true",
   threw |-> FALSE]

\* A store with no room left: the write of a new value throws, with a quota
\* error at the first attempt and after the cleanup, or with another error.
FailingOutcomes ==
  {w \in WriteOutcomes :
     w.first # "ok" /\ w.get = "ok" /\ w.trim = "ok" /\ w.retry = "quota"}

\* The store has room and setItem does not throw, or it is full.
Outcomes == IF storeFull THEN FailingOutcomes ELSE {RoomyStore}

\* safeLocalStorageSet(key, value) on store st when the underlying store
\* behaves as w: the store afterwards, the returned boolean, whether an
\* exception left the function, and the setItem calls it made.
safeLocalStorageSet(st, key, value, w) ==
  LET firstCall == SetItemCall("first", key, value, w.first) IN
  CASE w.first = "ok" ->
         [store |-> SetItem(st, key, value), calls |-> <<firstCall>>, ok |-> TRUE,
          threw |-> FALSE]
    [] w.first = "other" ->
         [store |-> st, calls |-> <<firstCall>>, ok |-> FALSE, threw |-> FALSE]
    [] w.first = "quota" ->
         LET r == CatchRetryError(CleanupAndRetry(st, key, value, w))
         IN [store |-> r.store, calls |-> <<firstCall>> \o r.calls, ok |-> r.ok,
             threw |-> r.threw]

----------------------------------------------------------------------------
(* History archive and session snapshot *)

\* HistoryEntry counting every transcript entry as a hint
HistoryEntryAllHints(puzzle, h, status) ==
  [puzzle |-> puzzle,
   interactionsCount |-> CountType(h, {"question", "guess"}),
   hintsUsed |-> Len(h),
   status |-> status]
\* The entry of saveToHistory (lines 270-277), without id and timestamp
HistoryEntry(puzzle, h, status) ==
  [puzzle |-> puzzle,
   interactionsCount |-> CountType(h, {"question", "guess"}),
   hintsUsed |-> CountType(h, {"hint"}),
   status |-> status]

\* NewLog without the cap
NewLogUncapped(entry, hl) == <<entry>> \o hl
NewLog(entry, hl) == Slice(<<entry>> \o hl, HistoryCap)

\* saveToHistory keeping the new archive in memory only when it was stored
saveToHistoryWhenStored(status, cp, h, hl, st, w) ==
  IF cp = NoPuzzle THEN [historyLog |-> historyLog, store |-> st, threw |-> FALSE]
  ELSE LET newLog == NewLog(HistoryEntry(cp, h, status), hl)
           r == safeLocalStorageSet(st, "history", newLog, w)
       IN [historyLog |-> IF r.ok THEN newLog ELSE hl,
           store |-> IF r.threw THEN r.store ELSE RemoveItem(r.store, "session"),
           threw |-> r.threw]
\* saveToHistory(status) run in a closure with currentPuzzle = cp, history = h,
\* historyLog = hl, on store st: the new in-memory archive, the new store, and
\* whether the write threw (the removeItem after it is then not reached).
saveToHistory(status, cp, h, hl, st, w) ==
  IF cp = NoPuzzle THEN [historyLog |-> historyLog, store |-> st, threw |-> FALSE]
  ELSE LET newLog == NewLog(HistoryEntry(cp, h, status), hl)
           r == safeLocalStorageSet(st, "history", newLog, w)
       IN [historyLog |-> newLog,
           store |-> IF r.threw THEN r.store ELSE RemoveItem(r.store, "session"),
           threw |-> r.threw]

\* sessionData of saveGameSession, built at time t (lines 287-295)
SessionData(gs, cp, h, inp, hr, hi, t) ==
  [gameState |-> gs, currentPuzzle |-> cp, history |-> h, input |-> inp,
   hintsRemaining |-> hr, hintIndex |-> hi, timestamp |-> t]

\* saveGameSession run at time t in a render with the given state.
saveGameSession(gs, cp, h, inp, hr, hi, t, st, w) ==
  IF gs = "PLAYING" /\ cp # NoPuzzle
  THEN safeLocalStorageSet(st, "session", SessionData(gs, cp, h, inp, hr, hi, t), w)
  ELSE [store |-> st, calls |-> <<>>, ok |-> TRUE, threw |-> FALSE]

\* SessionEffect without input among its dependencies
SessionEffectNoInputDep(st, w) ==
  IF <<gameState, currentPuzzle, history, hintsRemaining, hintIndex>>'
       # <<gameState, currentPuzzle, history, hintsRemaining, hintIndex>>
     /\ gameState' = "PLAYING"
  THEN saveGameSession(gameState', currentPuzzle', history', input', hintsRemaining',
                       hintIndex', now, st, w)
  ELSE [store |-> st, calls |-> <<>>, ok |-> TRUE, threw |-> FALSE]

\* SessionEffect writing the snapshot whatever the state is
SessionEffectAnyState(st, w) ==
  IF <<gameState, currentPuzzle, history, input, hintsRemaining, hintIndex>>'
       # <<gameState, currentPuzzle, history, input, hintsRemaining, hintIndex>>
  THEN safeLocalStorageSet(st, "session",
         SessionData(gameState', currentPuzzle', history', input', hintsRemaining',
                     hintIndex', now), w)
  ELSE [store |-> st, calls |-> <<>>, ok |-> TRUE, threw |-> FALSE]

\* The session-save effect (lines 461-466) of the render that commits the
\* primed state: it runs when one of its dependencies changed.
SessionEffect(st, w) ==
  IF <<gameState, currentPuzzle, history, input, hintsRemaining, hintIndex>>'
       # <<gameState, currentPuzzle, history, input, hintsRemaining, hintIndex>>
     /\ gameState' = "PLAYING"
  THEN saveGameSession(gameState', currentPuzzle', history', input', hintsRemaining',
                       hintIndex', now, st, w)
  ELSE [store |-> st, calls |-> <<>>, ok |-> TRUE, threw |-> FALSE]

\* The render that commits the primed state after a handler that left the
\* store as st, and the effect of that render.
Commit(st, w) == store' = SessionEffect(st, w).store

----------------------------------------------------------------------------
(* Construction: the mount effects (lines 204-213) on a store left by       *)
(* earlier runs of the program                                              *)

Interaction(type, content, response, status) ==
  [type |-> type, content |-> content, response |-> response, status |-> status]

\* `Seek Clue (#${currentHintIndex})` and its failure-marked variant
ClueContent(n) == <<"Seek Clue (#", ToString(n), ")">>
FailedClueContent(n) == ClueContent(n) \o <<" - Failed">>
HintFailedResponse == <<"Hint generation failed. Please try again.">>

\* An archive of n entries as the program writes them (newest first).
PreloadedEntry(i) ==
  [puzzle |-> [title |-> 100 + i, difficulty |-> "Easy"],
   interactionsCount |-> 0, hintsUsed |-> 0, status |-> "Surrendered"]
PreloadedLog(n) == [i \in 1..n |-> PreloadedEntry(i)]
PreloadLens == {0, HistoryCap - 1, HistoryCap}

\* A snapshot the program wrote in an earlier run: a game of difficulty d,
\* k hints received, nothing typed.
PreloadedSession(d, k) ==
  SessionData("PLAYING", [title |-> 99, difficulty |-> d],
              [i \in 1..k |-> Interaction("hint", ClueContent(i), <<"hintText">>, "Clue")],
              <<>>, Budget(d) - k, k, ClockStart)
PreloadedSessions ==
  {NoSession, PreloadedSession("Easy", 2), PreloadedSession("Medium", 4), PreloadedSession("Hard", 5)}

InitStores ==
  {[history |-> PreloadedLog(n), session |-> NoSession] : n \in PreloadLens}
    \cup {[history |-> NoHistory, session |-> s] : s \in PreloadedSessions}

\* validateSessionData with a hr = 0 snapshot failing a truthiness test
validateSessionDataTruthy(data) ==
  /\ data.gameState \in GameStates
  /\ \/ data.currentPuzzle = NoPuzzle
     \/ data.currentPuzzle.title # 0 /\ data.currentPuzzle.difficulty \in Difficulties
  /\ data.hintsRemaining # 0
  /\ data.hintIndex \in Int
  /\ data.timestamp \in Int

\* validateSessionData (lines 24-41) on a parsed snapshot. The title stands
\* for title, surface and bottom, which must be truthy; a record's history is
\* an array and its input a string.
validateSessionData(data) ==
  /\ data.gameState \in GameStates
  /\ \/ data.currentPuzzle = NoPuzzle
     \/ data.currentPuzzle.title # 0 /\ data.currentPuzzle.difficulty \in Difficulties
  /\ data.hintsRemaining \in Int
  /\ data.hintIndex \in Int
  /\ data.timestamp \in Int

\* Stored values of the session key that are not JSON: the empty string and
\* a text JSON.parse throws on.
EmptyText == [NoSession EXCEPT !.gameState = "empty string"]
Unparsable == [NoSession EXCEPT !.gameState = "unparsable"]

\* safeParseSessionData (lines 65-77): the parsed and validated snapshot, or
\* null (NoSession) when JSON.parse or the validation throws.
safeParseSessionData(jsonString) ==
  IF jsonString \in {EmptyText, Unparsable} THEN NoSession
  ELSE IF validateSessionData(jsonString) THEN jsonString
  ELSE NoSession

\* v || d, where falsy is the falsy value of v's type
OrElse(v, falsy, d) == IF v = falsy THEN d ELSE v

\* loadGameSession without the expiry test
loadGameSessionNoExpiry(st, t) ==
  LET data == st.session IN
  IF data # NoSession /\ validateSessionData(data)
  THEN [restored |-> TRUE,
        session |-> [gameState |-> OrElse(data.gameState, "", "MENU"),
                     currentPuzzle |-> data.currentPuzzle,
                     history |-> data.history,
                     input |-> OrElse(data.input, <<>>, <<>>),
                     hintsRemaining |-> OrElse(data.hintsRemaining, 0, 0),
                     hintIndex |-> OrElse(data.hintIndex, 0, 0)],
        store |-> st]
  ELSE [restored |-> FALSE, session |-> NoSession, store |-> RemoveItem(st, "session")]

\* loadGameSession at time t on store st (lines 303-332): whether it restored,
\* the values it set, and the store afterwards.
loadGameSession(st, t) ==
  LET saved == st.session
      data == safeParseSessionData(saved)
  IN
  IF saved = NoSession \/ saved = EmptyText
  THEN [restored |-> FALSE, session |-> NoSession, store |-> st]
  ELSE
  IF data # NoSession
     /\ data.timestamp # 0 /\ t - data.timestamp < SessionTTL
  THEN [restored |-> TRUE,
        session |-> [gameState |-> OrElse(data.gameState, "", "MENU"),
                     currentPuzzle |-> data.currentPuzzle,
                     history |-> data.history,
                     input |-> OrElse(data.input, <<>>, <<>>),
                     hintsRemaining |-> OrElse(data.hintsRemaining, 0, 0),
                     hintIndex |-> OrElse(data.hintIndex, 0, 0)],
        store |-> st]
  ELSE [restored |-> FALSE, session |-> NoSession, store |-> RemoveItem(st, "session")]

\* The state after mounting at time t on store st: the history load effect,
\* then loadGameSession, then the session-save effect of the re-render, whose
\* snapshot carries the time tSave.
Mounted(st, t, tSave, w) ==
  LET l == loadGameSession(st, t)
      gs == IF l.restored THEN l.session.gameState ELSE "MENU"
      cp == IF l.restored THEN l.session.currentPuzzle ELSE NoPuzzle
      h == IF l.restored THEN l.session.history ELSE <<>>
      inp == IF l.restored THEN l.session.input ELSE <<>>
      hr == IF l.restored THEN l.session.hintsRemaining ELSE 0
      hi == IF l.restored THEN l.session.hintIndex ELSE 0
  IN [gameState |-> gs, currentPuzzle |-> cp, history |-> h, input |-> inp,
      hintsRemaining |-> hr, hintIndex |-> hi,
      historyLog |-> IF st.history # NoHistory THEN st.history ELSE <<>>,
      store |-> IF l.restored
                THEN saveGameSession(gs, cp, h, inp, hr, hi, tSave, l.store, w).store
                ELSE l.store]

\* The game specification does not advance the clock: every snapshot carries
\* the reading `now`, and a page load draws the time that has passed since the
\* snapshot in the store was written (only the difference is ever used).
Elapsed == {SessionTTL - 1, SessionTTL}

NoSave == [at |-> 0, session |-> NoSession]
NoLoad == [at |-> 0, found |-> NoSession]
NoSetCall == [key |-> "none"]
IdleClient == [state |-> "idle"]
NothingTyped == [stage |-> "none", value |-> <<>>, once |-> <<>>, twice |-> <<>>]

ComponentsIdle ==
  /\ now = ClockStart
  /\ lastSave = NoSave
  /\ lastLoad = NoLoad
  /\ client = IdleClient
  /\ setCall = NoSetCall
  /\ typed = NothingTyped
  /\ storeFull = FALSE

Init ==
  \E st \in InitStores, e \in Elapsed :
    LET m == Mounted(st, ClockStart + e, ClockStart, RoomyStore) IN
    /\ ComponentsIdle
    /\ gameState = m.gameState
    /\ currentPuzzle = m.currentPuzzle
    /\ history = m.history
    /\ input = m.input
    /\ isLoading = FALSE
    /\ hintsRemaining = m.hintsRemaining
    /\ hintIndex = m.hintIndex
    /\ historyLog = m.historyLog
    /\ error = Null
    /\ lastAction = NoAction
    /\ isProcessingRef = FALSE
    /\ store = m.store
    /\ pending = <<>>
    /\ timers = 0
    /\ reqCount = 0

\* The page is reloaded: in-flight requests and timers die with the page.
Reload ==
  \E e \in Elapsed, w \in Outcomes :
    LET m == Mounted(store, now + e, now, w) IN
    /\ gameState' = m.gameState
    /\ currentPuzzle' = m.currentPuzzle
    /\ history' = m.history
    /\ input' = m.input
    /\ isLoading' = FALSE
    /\ hintsRemaining' = m.hintsRemaining
    /\ hintIndex' = m.hintIndex
    /\ historyLog' = m.historyLog
    /\ error' = Null
    /\ lastAction' = NoAction
    /\ isProcessingRef' = FALSE
    /\ store' = m.store
    /\ pending' = <<>>
    /\ timers' = 0
    /\ UNCHANGED reqCount
    /\ UNCHANGED compVars

----------------------------------------------------------------------------
(* The oracle client as the state machine sees it: a request is issued and  *)
(* later returns a value or throws                                          *)

StartRequest(d, viaRetry) ==
  [kind |-> "start", difficulty |-> d, title |-> reqCount + 1, viaRetry |-> viaRetry]

\* The closure of handleAction: currentPuzzle, history and historyLog are the
\* values of the render the handler was invoked in.
EvalRequest(isGuess, text, viaRetry) ==
  [kind |-> "eval", isGuess |-> isGuess, currentInput |-> text,
   currentPuzzle |-> currentPuzzle, history |-> history, historyLog |-> historyLog,
   viaRetry |-> viaRetry]

HintRequest(n, viaRetry) ==
  [kind |-> "hint", currentHintIndex |-> n, viaRetry |-> viaRetry]

\* evaluateInteraction's results (geminiService.ts lines 452-457, 491-496)
QuestionStatuses == {"Yes", "No", "Irrelevant"}
GuessStatuses == {"Correct", "Incorrect"}
EvalResults(r) ==
  IF r.isGuess
  THEN {Interaction("guess", r.currentInput, <<"feedback">>, s) : s \in GuessStatuses}
  ELSE {Interaction("question", r.currentInput, <<>>, s) : s \in QuestionStatuses}

\* { difficulty, ...data }: a difficulty field of the oracle's data wins
GeneratedPuzzleDataLast(r) == [title |-> r.title, difficulty |-> "Medium"]
\* generateNewPuzzle's result: { ...data, difficulty }. The oracle's title
\* stands for title, surface and bottom; each generated puzzle is a new one.
GeneratedPuzzle(r) == [title |-> r.title, difficulty |-> r.difficulty]

ErrGenerate == "Failed to generate puzzle. Please try again."
ErrProcess == "Failed to process your input. Please try again."
ErrHint == "Failed to generate hint. Please try again."

----------------------------------------------------------------------------
(* Handlers. Each action is a user event the rendered screen allows (a      *)
(* disabled or unrendered control delivers no event), the synchronous part  *)
(* of its handler, and the render and effects that follow.                  *)

\* isLoading || isProcessingRef.current (lines 470, 504, 542)
InFlightGuard == isLoading \/ isProcessingRef

\* A finally block that resets the ref and leaves isLoading as it is
ReleaseRefOnly == isProcessingRef' = FALSE /\ isLoading' = isLoading
\* The finally blocks of startGame, handleAction and handleHint (lines
\* 495-498, 535-538, 572-575)
ReleaseGuard == isLoading' = FALSE /\ isProcessingRef' = FALSE

\* The early returns of handleAction (line 504) and handleHint (line 542)
handleActionRejects(inputToUse) ==
  Trim(inputToUse) = <<>> \/ currentPuzzle = NoPuzzle \/ InFlightGuard
handleHintRejectsNoBudget ==
  currentPuzzle = NoPuzzle \/ InFlightGuard
handleHintRejects ==
  currentPuzzle = NoPuzzle \/ hintsRemaining <= 0 \/ InFlightGuard

\* AppendInteraction putting the new entry first
PrependInteraction(h, entry) == <<entry>> \o h
\* setHistory(prev => [...prev, entry]) (lines 512, 556, 566)
AppendInteraction(h, entry) == Append(h, entry)

\* startGame(difficulty) up to its await (lines 468-478, 487)
startGameBody(d, viaRetry, w) ==
  IF InFlightGuard
  THEN UNCHANGED vars
  ELSE /\ isProcessingRef' = TRUE
       /\ lastAction' = [type |-> "start", input |-> <<>>]
       /\ isLoading' = TRUE
       /\ error' = Null
       /\ gameState' = "LOADING"
       /\ history' = <<>>
       /\ hintIndex' = 0
       /\ hintsRemaining' = Budget(d)
       /\ pending' = Append(pending, StartRequest(d, viaRetry))
       /\ reqCount' = reqCount + 1
       /\ UNCHANGED <<currentPuzzle, input, historyLog, timers>>
       /\ Commit(store, w)

\* The difficulty buttons of the menu (lines 646-667) and NEW CASE on the
\* finished screen (line 945).
StartGame ==
  /\ reqCount < MaxRequests
  /\ UNCHANGED compVars
  /\ \E d \in Difficulties, w \in Outcomes :
       /\ \/ gameState = "MENU" /\ ~isLoading
          \/ /\ gameState = "FINISHED"
             /\ d = IF currentPuzzle # NoPuzzle THEN currentPuzzle.difficulty ELSE "Medium"
       /\ startGameBody(d, FALSE, w)

\* generateNewPuzzle returns or throws: the rest of startGame (lines 488-498).
GeneratePuzzleReturns ==
  \E i \in 1..Len(pending), ok \in BOOLEAN, w \in Outcomes :
    LET r == pending[i] IN
    /\ r.kind = "start"
    /\ pending' = RemoveAt(pending, i)
    /\ IF ok
       THEN /\ currentPuzzle' = GeneratedPuzzle(r)
            /\ gameState' = "PLAYING"
            /\ UNCHANGED error
       ELSE /\ error' = ErrGenerate
            /\ gameState' = "MENU"
            /\ UNCHANGED currentPuzzle
    /\ ReleaseGuard
    /\ UNCHANGED <<history, input, hintsRemaining, hintIndex, historyLog, lastAction, timers, reqCount>>
    /\ UNCHANGED compVars
    /\ Commit(store, w)

\* handleActionBody that raises neither isLoading nor isProcessingRef
handleActionBodyNoFlags(isGuess, retryInput, viaRetry, la, w) ==
  LET inputToUse == IF retryInput # <<>> THEN retryInput ELSE input IN
  IF handleActionRejects(inputToUse)
  THEN /\ lastAction' = la
       /\ UNCHANGED <<gameState, currentPuzzle, history, input, isLoading, hintsRemaining,
                      hintIndex, historyLog, error, isProcessingRef, store, pending,
                      timers, reqCount>>
  ELSE /\ input' = IF retryInput = <<>> THEN <<>> ELSE input
       /\ error' = Null
       /\ lastAction' = la
       /\ pending' = Append(pending, EvalRequest(isGuess, inputToUse, viaRetry))
       /\ reqCount' = reqCount + 1
       /\ UNCHANGED <<gameState, currentPuzzle, history, hintsRemaining, hintIndex,
                      historyLog, timers, isLoading, isProcessingRef>>
       /\ Commit(store, w)

\* handleAction(isGuess, retryInput) up to its await (lines 501-511);
\* retryInput = <<>> stands for an omitted argument.
handleActionBody(isGuess, retryInput, viaRetry, la, w) ==
  LET inputToUse == IF retryInput # <<>> THEN retryInput ELSE input IN
  IF handleActionRejects(inputToUse)
  THEN /\ lastAction' = la
       /\ UNCHANGED <<gameState, currentPuzzle, history, input, isLoading, hintsRemaining,
                      hintIndex, historyLog, error, isProcessingRef, store, pending,
                      timers, reqCount>>
  ELSE /\ isProcessingRef' = TRUE
       /\ input' = IF retryInput = <<>> THEN <<>> ELSE input
       /\ isLoading' = TRUE
       /\ error' = Null
       /\ lastAction' = la
       /\ pending' = Append(pending, EvalRequest(isGuess, inputToUse, viaRetry))
       /\ reqCount' = reqCount + 1
       /\ UNCHANGED <<gameState, currentPuzzle, history, hintsRemaining, hintIndex,
                      historyLog, timers>>
       /\ Commit(store, w)

\* ASK, SOLVE (lines 907-928) and the Enter key in the input field (lines 896-901)
Ask ==
  /\ reqCount < MaxRequests
  /\ UNCHANGED compVars
  /\ gameState = "PLAYING" /\ ~isLoading /\ Trim(input) # <<>>
  /\ \E w \in Outcomes :
       handleActionBody(FALSE, <<>>, FALSE, [type |-> "question", input |-> input], w)

Solve ==
  /\ reqCount < MaxRequests
  /\ UNCHANGED compVars
  /\ gameState = "PLAYING" /\ ~isLoading /\ Trim(input) # <<>>
  /\ \E w \in Outcomes :
       handleActionBody(TRUE, <<>>, FALSE, [type |-> "guess", input |-> input], w)

EnterKey ==
  /\ reqCount < MaxRequests
  /\ UNCHANGED compVars
  /\ gameState = "PLAYING" /\ ~isLoading /\ Trim(input) # <<>>
  /\ \E w \in Outcomes :
       handleActionBody(FALSE, <<>>, FALSE, lastAction, w)

\* evaluateInteraction returns or throws: the rest of handleAction (lines 512-538).
EvaluateReturns ==
  \E i \in 1..Len(pending), w1 \in Outcomes :
    LET r == pending[i] IN
    /\ r.kind = "eval"
    /\ pending' = RemoveAt(pending, i)
    /\ \/ \E result \in EvalResults(r) :
            /\ history' = AppendInteraction(history, result)
            /\ IF r.isGuess /\ result.status = "Correct"
               THEN LET s == saveToHistory("Solved", r.currentPuzzle, r.history, r.historyLog, store, w1)
                    IN /\ historyLog' = s.historyLog
                       /\ IF s.threw
                          THEN /\ error' = ErrProcess /\ input' = r.currentInput
                               /\ timers' = timers
                          ELSE /\ error' = error /\ input' = input
                               /\ timers' = timers + 1
                       /\ gameState' = gameState /\ currentPuzzle' = currentPuzzle
                       /\ hintsRemaining' = hintsRemaining
                       /\ hintIndex' = hintIndex
                       /\ \E w2 \in Outcomes :
                            Commit(s.store, w2)
               ELSE /\ UNCHANGED <<historyLog, timers, gameState, currentPuzzle, input,
                                   hintsRemaining, hintIndex, error>>
                    /\ Commit(store, w1)
       \/ /\ error' = ErrProcess
          /\ input' = r.currentInput
          /\ UNCHANGED <<history, historyLog, timers, gameState, currentPuzzle,
                         hintsRemaining, hintIndex>>
          /\ Commit(store, w1)
    /\ ReleaseGuard
    /\ UNCHANGED <<lastAction, reqCount>>
    /\ UNCHANGED compVars

\* handleHintBody with a retry that reuses the attempt of the failed hint
handleHintBodyReusingAttempt(viaRetry, w) ==
  IF handleHintRejects
  THEN UNCHANGED vars
  ELSE /\ isProcessingRef' = TRUE
       /\ lastAction' = [type |-> "hint", input |-> <<>>]
       /\ isLoading' = TRUE
       /\ error' = Null
       /\ hintIndex' = IF viaRetry THEN hintIndex ELSE hintIndex + 1
       /\ hintsRemaining' = IF viaRetry THEN hintsRemaining ELSE hintsRemaining - 1
       /\ pending' = Append(pending, HintRequest(hintIndex', viaRetry))
       /\ reqCount' = reqCount + 1
       /\ UNCHANGED <<gameState, currentPuzzle, history, input, historyLog, timers>>
       /\ Commit(store, w)

\* handleHint up to its await (lines 541-555)
handleHintBody(viaRetry, w) ==
  IF handleHintRejects
  THEN UNCHANGED vars
  ELSE /\ isProcessingRef' = TRUE
       /\ lastAction' = [type |-> "hint", input |-> <<>>]
       /\ isLoading' = TRUE
       /\ error' = Null
       /\ hintIndex' = hintIndex + 1
       /\ hintsRemaining' = hintsRemaining - 1
       /\ pending' = Append(pending, HintRequest(hintIndex + 1, viaRetry))
       /\ reqCount' = reqCount + 1
       /\ UNCHANGED <<gameState, currentPuzzle, history, input, historyLog, timers>>
       /\ Commit(store, w)

\* The Hint button (lines 812-821)
Hint ==
  /\ reqCount < MaxRequests
  /\ UNCHANGED compVars
  /\ gameState = "PLAYING" /\ hintsRemaining > 0 /\ ~isLoading
  /\ \E w \in Outcomes : handleHintBody(FALSE, w)

\* generateHint returns or throws: the rest of handleHint (lines 556-575).
HintReturns ==
  \E i \in 1..Len(pending), ok \in BOOLEAN, w \in Outcomes :
    LET r == pending[i] IN
    /\ r.kind = "hint"
    /\ pending' = RemoveAt(pending, i)
    /\ IF ok
       THEN /\ history' = AppendInteraction(history,
                 Interaction("hint", ClueContent(r.currentHintIndex), <<"hintText">>, "Clue"))
            /\ UNCHANGED error
       ELSE /\ error' = ErrHint
            /\ history' = AppendInteraction(history,
                 Interaction("hint", FailedClueContent(r.currentHintIndex), HintFailedResponse, "Clue"))
    /\ ReleaseGuard
    /\ UNCHANGED <<gameState, currentPuzzle, input, hintsRemaining, hintIndex, historyLog,
                   lastAction, timers, reqCount>>
    /\ UNCHANGED compVars
    /\ Commit(store, w)

\* Surrender with a button that is not disabled while loading
SurrenderNotDisabled ==
  /\ gameState = "PLAYING" /\ currentPuzzle # NoPuzzle
  /\ UNCHANGED compVars
  /\ \E w \in Outcomes :
       LET s == saveToHistory("Surrendered", currentPuzzle, history, historyLog, store, w) IN
       /\ historyLog' = s.historyLog
       /\ gameState' = IF s.threw THEN gameState ELSE "FINISHED"
       /\ UNCHANGED <<currentPuzzle, history, input, isLoading, hintsRemaining, hintIndex,
                      error, lastAction, isProcessingRef, pending, timers, reqCount>>
       /\ Commit(s.store, RoomyStore)

\* The Surrender button (lines 822-829) and handleSurrender (lines 578-583)
Surrender ==
  /\ gameState = "PLAYING" /\ ~isLoading /\ currentPuzzle # NoPuzzle
  /\ UNCHANGED compVars
  /\ \E w \in Outcomes :
       LET s == saveToHistory("Surrendered", currentPuzzle, history, historyLog, store, w) IN
       /\ historyLog' = s.historyLog
       /\ gameState' = IF s.threw THEN gameState ELSE "FINISHED"
       /\ UNCHANGED <<currentPuzzle, history, input, isLoading, hintsRemaining, hintIndex,
                      error, lastAction, isProcessingRef, pending, timers, reqCount>>
       /\ Commit(s.store, RoomyStore)

\* The timeout callback scheduled by a correct guess (lines 518-521)
FinishTimerFires ==
  /\ timers > 0
  /\ timers' = timers - 1
  /\ UNCHANGED compVars
  /\ gameState' = "FINISHED"
  /\ UNCHANGED <<currentPuzzle, history, input, isLoading, hintsRemaining, hintIndex,
                 historyLog, error, lastAction, isProcessingRef, store, pending, reqCount>>

\* The Retry button of the error display (lines 781-790) and retryLastAction
\* (lines 585-618). When the inner handler is not called or rejects, the
\* net effect of setError(null), setIsLoading(true), setIsLoading(false)
\* is to clear the error.
RetryLastAction ==
  /\ reqCount < MaxRequests
  /\ UNCHANGED compVars
  /\ gameState = "PLAYING" /\ error # Null /\ lastAction # NoAction /\ ~isLoading
  /\ \E w \in Outcomes :
       LET rejected ==
             /\ error' = Null
             /\ UNCHANGED <<gameState, currentPuzzle, history, input, isLoading,
                            hintsRemaining, hintIndex, historyLog, lastAction,
                            isProcessingRef, store, pending, timers, reqCount>>
       IN CASE lastAction.type \in {"question", "guess"} ->
                 IF lastAction.input # <<>> /\ ~handleActionRejects(lastAction.input)
                 THEN handleActionBody(lastAction.type = "guess", lastAction.input, TRUE, lastAction, w)
                 ELSE rejected
            [] lastAction.type = "hint" ->
                 IF ~handleHintRejects
                 THEN handleHintBody(TRUE, w)
                 ELSE rejected
            [] lastAction.type = "start" ->
                 IF currentPuzzle # NoPuzzle /\ ~InFlightGuard
                 THEN startGameBody(currentPuzzle.difficulty, TRUE, w)
                 ELSE rejected

\* The dismiss button of the error display (lines 791-797)
DismissError ==
  /\ gameState = "PLAYING" /\ error # Null
  /\ error' = Null
  /\ UNCHANGED compVars
  /\ UNCHANGED <<gameState, currentPuzzle, history, input, isLoading, hintsRemaining,
                 hintIndex, historyLog, lastAction, isProcessingRef, store, pending,
                 timers, reqCount>>

\* Typing in the input field (line 890); the field holds sanitized text.
SetInput ==
  /\ gameState = "PLAYING" /\ ~isLoading
  /\ UNCHANGED compVars
  /\ \E t \in Texts, w \in Outcomes :
       /\ input' = t
       /\ UNCHANGED <<gameState, currentPuzzle, history, isLoading, hintsRemaining,
                      hintIndex, historyLog, error, lastAction, isProcessingRef, pending,
                      timers, reqCount>>
       /\ Commit(store, w)

\* The navigation buttons: Rules / Chronicle on the menu (lines 672-685),
\* Return on the history, rules and finished screens (lines 735, 752, 944),
\* Exit on the playing screen (lines 830-837).
NavTargets ==
  CASE gameState = "MENU" -> IF isLoading THEN {} ELSE {"RULES", "HISTORY"}
    [] gameState \in {"HISTORY", "RULES", "FINISHED"} -> {"MENU"}
    [] gameState = "PLAYING" -> IF isLoading THEN {} ELSE {"MENU"}
    [] OTHER -> {}

\* navigateTo also dropping the stored snapshot
navigateToClearingSession(state) ==
  /\ gameState' = state
  /\ UNCHANGED compVars
  /\ UNCHANGED <<currentPuzzle, history, input, isLoading, hintsRemaining, hintIndex,
                 historyLog, error, lastAction, isProcessingRef, pending, timers, reqCount>>
  /\ Commit(RemoveItem(store, "session"), RoomyStore)
\* navigateTo(state) (lines 620-626): setGameState(state)
navigateTo(state) ==
  /\ gameState' = state
  /\ UNCHANGED compVars
  /\ UNCHANGED <<currentPuzzle, history, input, isLoading, hintsRemaining, hintIndex,
                 historyLog, error, lastAction, isProcessingRef, pending, timers, reqCount>>
  /\ Commit(store, RoomyStore)

Navigate == \E s \in NavTargets : navigateTo(s)

Next ==
  \/ StartGame
  \/ GeneratePuzzleReturns
  \/ Ask
  \/ Solve
  \/ EnterKey
  \/ EvaluateReturns
  \/ Hint
  \/ HintReturns
  \/ Surrender
  \/ FinishTimerFires
  \/ RetryLastAction
  \/ DismissError
  \/ SetInput
  \/ Navigate
  \/ Reload

Spec == Init /\ [][Next]_vars

\* The game when every oracle call comes to an end: the promise of an
\* outstanding request settles, and its handler's continuation runs.
LiveSpec ==
  /\ Init /\ [][Next]_vars
  /\ WF_vars(GeneratePuzzleReturns) /\ WF_vars(EvaluateReturns) /\ WF_vars(HintReturns)

----------------------------------------------------------------------------
(* The game from a page on which a hint has already been asked for and      *)
(* received: lastAction is set before the first request counted here        *)

\* A restored game after handleHint has run to its end once.
AfterOneHint(s) ==
  LET n == s.hintIndex + 1
      h == AppendInteraction(s.history,
             Interaction("hint", ClueContent(n), <<"hintText">>, "Clue"))
  IN [gameState |-> "PLAYING", currentPuzzle |-> s.currentPuzzle, history |-> h,
      hintsRemaining |-> s.hintsRemaining - 1, hintIndex |-> n,
      lastAction |-> [type |-> "hint", input |-> <<>>]]

RetryInit ==
  \E s \in PreloadedSessions \ {NoSession} :
    LET m == AfterOneHint(s) IN
    /\ ComponentsIdle
    /\ gameState = m.gameState /\ currentPuzzle = m.currentPuzzle
    /\ history = m.history /\ input = <<>> /\ isLoading = FALSE
    /\ hintsRemaining = m.hintsRemaining /\ hintIndex = m.hintIndex
    /\ historyLog = <<>> /\ error = Null /\ lastAction = m.lastAction
    /\ isProcessingRef = FALSE
    /\ store = [history |-> NoHistory,
                session |-> SessionData(m.gameState, m.currentPuzzle, m.history, <<>>,
                                        m.hintsRemaining, m.hintIndex, ClockStart)]
    /\ pending = <<>> /\ timers = 0 /\ reqCount = 0

RetrySpec == RetryInit /\ [][Next]_vars

----------------------------------------------------------------------------
(* The game on a store that has no room left: every write of a new value    *)
(* fails                                                                    *)

FullInit ==
  \E st \in InitStores, e \in Elapsed, w \in FailingOutcomes :
    LET m == Mounted(st, ClockStart + e, ClockStart, w) IN
    /\ now = ClockStart /\ lastSave = NoSave /\ lastLoad = NoLoad
    /\ client = IdleClient /\ setCall = NoSetCall /\ typed = NothingTyped
    /\ storeFull = TRUE
    /\ gameState = m.gameState
    /\ currentPuzzle = m.currentPuzzle
    /\ history = m.history
    /\ input = m.input
    /\ isLoading = FALSE
    /\ hintsRemaining = m.hintsRemaining
    /\ hintIndex = m.hintIndex
    /\ historyLog = m.historyLog
    /\ error = Null
    /\ lastAction = NoAction
    /\ isProcessingRef = FALSE
    /\ store = m.store
    /\ pending = <<>>
    /\ timers = 0
    /\ reqCount = 0

FullSpec == FullInit /\ [][Next]_vars

----------------------------------------------------------------------------
(* The session snapshot on its own, with the clock: states of a game are    *)
(* saved by the session-save effect, time passes, and the page is loaded    *)

MaxHours == 1         \* how long the clock runs, in expiry windows

EmptyStore == [history |-> NoHistory, session |-> NoSession]

\* The in-memory values a snapshot holds.
Memory ==
  [gameState |-> gameState, currentPuzzle |-> currentPuzzle, history |-> history,
   input |-> input, hintsRemaining |-> hintsRemaining, hintIndex |-> hintIndex]

\* States the game leaves in memory: a game of difficulty d after k hint
\* requests, with inp typed, on the playing screen or left through Exit.
GameMemory(gs, d, k, inp) ==
  [gameState |-> gs, currentPuzzle |-> [title |-> 1, difficulty |-> d],
   history |-> [i \in 1..k |-> Interaction("hint", ClueContent(i), <<"hintText">>, "Clue")],
   input |-> inp, hintsRemaining |-> Budget(d) - k, hintIndex |-> k]
GameMemories ==
  {GameMemory(gs, d, k, inp) : gs \in {"PLAYING", "MENU"}, d \in {"Easy", "Hard"},
                               k \in {0, 3}, inp \in {<<>>, <<"a">>}}

\* Time that passes in one step: just under, exactly, and just over the
\* expiry window.
Ticks == {SessionTTL - 1, SessionTTL, SessionTTL + 1}

SessionFrame ==
  UNCHANGED <<isLoading, error, lastAction, isProcessingRef, pending, timers, reqCount,
              client, setCall, typed, storeFull>>

SessionInit ==
  /\ ComponentsIdle
  /\ gameState = "MENU" /\ currentPuzzle = NoPuzzle /\ history = <<>> /\ input = <<>>
  /\ isLoading = FALSE /\ hintsRemaining = 0 /\ hintIndex = 0 /\ historyLog = <<>>
  /\ error = Null /\ lastAction = NoAction /\ isProcessingRef = FALSE
  /\ store = EmptyStore /\ pending = <<>> /\ timers = 0 /\ reqCount = 0

\* The game changes the in-memory state; the render's session-save effect runs.
SessionPlay ==
  \E m \in GameMemories, w \in Outcomes :
    /\ gameState' = m.gameState /\ currentPuzzle' = m.currentPuzzle
    /\ history' = m.history /\ input' = m.input
    /\ hintsRemaining' = m.hintsRemaining /\ hintIndex' = m.hintIndex
    /\ Commit(store, w)
    /\ lastSave' = IF SessionEffect(store, w).calls # <<>> /\ SessionEffect(store, w).ok
                   THEN [at |-> now, session |-> m]
                   ELSE lastSave
    /\ lastLoad' = NoLoad
    /\ UNCHANGED <<historyLog, now>>
    /\ SessionFrame

SessionTick ==
  \E dt \in Ticks :
    /\ now + dt <= ClockStart + MaxHours * (SessionTTL + 1)
    /\ now' = now + dt
    /\ lastLoad' = NoLoad
    /\ UNCHANGED <<gameState, currentPuzzle, history, input, hintsRemaining, hintIndex,
                   historyLog, store, lastSave>>
    /\ SessionFrame

\* The page is loaded at the time `now`: the mount effects.
SessionLoad ==
  \E w \in Outcomes :
    LET m == Mounted(store, now, now, w) IN
    /\ gameState' = m.gameState /\ currentPuzzle' = m.currentPuzzle
    /\ history' = m.history /\ input' = m.input
    /\ hintsRemaining' = m.hintsRemaining /\ hintIndex' = m.hintIndex
    /\ historyLog' = m.historyLog
    /\ store' = m.store
    /\ lastLoad' = [at |-> now, found |-> store.session]
    /\ lastSave' = IF loadGameSession(store, now).restored
                   THEN [at |-> m.store.session.timestamp,
                         session |-> [gameState |-> m.gameState, currentPuzzle |-> m.currentPuzzle,
                                      history |-> m.history, input |-> m.input,
                                      hintsRemaining |-> m.hintsRemaining,
                                      hintIndex |-> m.hintIndex]]
                   ELSE NoSave
    /\ UNCHANGED now
    /\ SessionFrame

SessionNext == SessionPlay \/ SessionTick \/ SessionLoad

SessionSpec == SessionInit /\ [][SessionNext]_vars

----------------------------------------------------------------------------
(* The page loaded on a store whose session key holds whatever was left     *)
(* there: a snapshot of the program, fresh or old, or a value that is not   *)
(* a snapshot                                                               *)

\* Parsed values that fail validateSessionData: an unknown gameState, a
\* puzzle without a title, a puzzle of an unknown difficulty.
InvalidSnapshots ==
  {[PreloadedSession("Easy", 2) EXCEPT !.gameState = "PAUSED"],
   [PreloadedSession("Easy", 2) EXCEPT !.currentPuzzle.title = 0],
   [PreloadedSession("Easy", 2) EXCEPT !.currentPuzzle.difficulty = "Extreme"]}

CorruptSnapshots == {EmptyText, Unparsable} \cup InvalidSnapshots

FoundSnapshots == PreloadedSessions \cup CorruptSnapshots

LoadTimes == {ClockStart, ClockStart + SessionTTL - 1, ClockStart + SessionTTL,
              ClockStart + SessionTTL + 1}

LoadInit ==
  /\ lastSave = NoSave /\ lastLoad = NoLoad
  /\ client = IdleClient /\ setCall = NoSetCall /\ typed = NothingTyped
  /\ storeFull = FALSE
  /\ now \in LoadTimes
  /\ gameState = "MENU" /\ currentPuzzle = NoPuzzle /\ history = <<>> /\ input = <<>>
  /\ isLoading = FALSE /\ hintsRemaining = 0 /\ hintIndex = 0 /\ historyLog = <<>>
  /\ error = Null /\ lastAction = NoAction /\ isProcessingRef = FALSE
  /\ store \in {[history |-> PreloadedLog(n), session |-> ss] :
                  n \in PreloadLens, ss \in FoundSnapshots}
  /\ pending = <<>> /\ timers = 0 /\ reqCount = 0

\* The mount effects, once, on the store as it was found.
LoadFound == lastLoad = NoLoad /\ SessionLoad

LoadNext == LoadFound

LoadSpec == LoadInit /\ [][LoadNext]_vars

----------------------------------------------------------------------------
(* The oracle client on its own (geminiService.ts): one operation, its      *)
(* requests to the model service, and the catch block's retry policy        *)

Operations == {"generateNewPuzzle", "generateHint", "evaluateInteraction"}

\* The ordered model lists of getModelForDifficulty (lines 200-204)
Models(d) ==
  CASE d = "Easy" -> <<"gemini-1.5-flash", "gemini-1.5-pro", "gemini-pro">>
    [] d = "Medium" -> <<"gemini-1.5-pro", "gemini-pro", "gemini-1.5-flash">>
    [] d = "Hard" -> <<"gemini-pro", "gemini-1.5-pro", "gemini-1.5-flash">>

Max(a, b) == IF a > b THEN a ELSE b

\* getModelForDifficulty ignoring the attempt
getModelForDifficultyFirst(d, attemptCount) == Models(d)[1]
\* getModelForDifficulty (lines 199-210); sequences are indexed from 1
getModelForDifficulty(d, attemptCount) ==
  Models(d)[Max(0, Min(attemptCount, Len(Models(d)) - 1)) + 1]

\* An error message is modelled by the substrings the catch block looks for
\* that it contains.
Keywords == {"model", "MODEL", "API_KEY", "quota", "rate limit"}

\* What one request can come to. "ok": a response that parses and has its
\* fields. "empty": no response text (line 277). "unparsable": text that
\* safeJsonParse cannot parse after its repair (lines 283-287); the message
\* carries the engine's parse error, which may quote the text. "invalid": a
\* parsed object with missing or invalid fields (line 290). The other kinds
\* are failures thrown by generateContent; the service's message names the
\* failure (the model, the API key, the quota) and may name more.
Responses ==
  {[kind |-> "ok", msg |-> {}], [kind |-> "empty", msg |-> {}], [kind |-> "invalid", msg |-> {}]}
    \cup {[kind |-> "unparsable", msg |-> m] : m \in {{}, {"model"}}}
    \cup {[kind |-> "modelUnavailable", msg |-> m] : m \in {{"model"}, {"MODEL"}}}
    \cup {[kind |-> "auth", msg |-> m] : m \in {{"API_KEY"}, {"API_KEY", "model"}}}
    \cup {[kind |-> "quota", msg |-> m] : m \in {{"quota"}, {"rate limit"}, {"quota", "model"}}}
    \cup {[kind |-> "network", msg |-> {}]}

Malformed == {"empty", "unparsable", "invalid"}

ErrApiKey == "Invalid or missing Gemini API key. Please check your .env.local file."
ErrQuota == "Gemini API quota exceeded. Please try again later."
ErrModel == "Gemini model not available. Please check model configuration."
ErrFailed(op) ==
  CASE op = "generateNewPuzzle" -> "Failed to generate puzzle: ..."
    [] op = "generateHint" -> "Failed to generate hint: ..."
    [] op = "evaluateInteraction" -> "Failed to process your input: ..."

\* ShouldRetry without the attempt limit
ShouldRetryUnbounded(msg, attemptCount) == "model" \in msg \/ "MODEL" \in msg
\* The retry test of the catch block (lines 300, 371, 503)
ShouldRetry(msg, attemptCount) ==
  ("model" \in msg \/ "MODEL" \in msg) /\ attemptCount < maxRetries - 1

\* The error the catch block throws when it does not retry (lines 306-315,
\* 377-383, 509-515)
Classify(op, msg) ==
  IF "API_KEY" \in msg THEN ErrApiKey
  ELSE IF "quota" \in msg \/ "rate limit" \in msg THEN ErrQuota
  ELSE IF op = "generateNewPuzzle" /\ "model" \in msg THEN ErrModel
  ELSE ErrFailed(op)

\* The operation c after its outstanding request came to resp.
AfterResponse(c, resp) ==
  LET c1 == [c EXCEPT !.responses = Append(@, resp)] IN
  IF resp.kind = "ok"
  THEN [c1 EXCEPT !.state = "returned"]
  ELSE IF ShouldRetry(resp.msg, c.attemptCount)
  THEN [c1 EXCEPT !.attemptCount = @ + 1,
                  !.models = Append(@, getModelForDifficulty(c.difficulty, c.attemptCount + 1))]
  ELSE [c1 EXCEPT !.state = "thrown", !.thrown = Classify(c.op, resp.msg)]

ClientFrame ==
  UNCHANGED <<gameState, currentPuzzle, history, input, isLoading, hintsRemaining,
              hintIndex, historyLog, error, lastAction, isProcessingRef, store,
              pending, timers, reqCount, now, lastSave, lastLoad, setCall, typed,
              storeFull>>

ClientInit == SessionInit

\* The state machine calls an operation with attemptCount = 0: the first
\* request is issued.
ClientCall ==
  /\ client.state # "awaiting"
  /\ \E op \in Operations, d \in Difficulties :
       client' = [state |-> "awaiting", op |-> op, difficulty |-> d, attemptCount |-> 0,
                  models |-> <<getModelForDifficulty(d, 0)>>, responses |-> <<>>,
                  thrown |-> Null]
  /\ ClientFrame

\* The outstanding request returns or fails.
RequestReturns ==
  /\ client.state = "awaiting"
  /\ \E resp \in Responses : client' = AfterResponse(client, resp)
  /\ ClientFrame

ClientNext == ClientCall \/ RequestReturns

\* Every request returns: the transport answers or fails.
ClientSpec == ClientInit /\ [][ClientNext]_vars /\ WF_vars(RequestReturns)

----------------------------------------------------------------------------
(* The store adapter on its own: safeLocalStorageSet called, as the program *)
(* calls it, on a store that may throw at any of its calls                  *)

\* Archives of no entry, 10, 11 and 50 entries, with and without a snapshot.
StoredLens == {0, TrimKeep, TrimKeep + 1, HistoryCap}
StoredStores ==
  {[history |-> PreloadedLog(n), session |-> ss] :
     n \in StoredLens, ss \in {NoSession, PreloadedSession("Easy", 2)}}

\* The values the program writes: under the history key the archive with a
\* new entry in front (saveToHistory), under the session key a snapshot.
WrittenValues(key, st) ==
  IF key = "history"
  THEN {NewLog(HistoryEntry([title |-> 1, difficulty |-> "Hard"], <<>>, status), st.history) :
          status \in {"Solved", "Surrendered"}}
  ELSE {SessionData("PLAYING", [title |-> 1, difficulty |-> "Hard"], <<>>, inp, 7, 0, now) :
          inp \in {<<>>, <<"a">>}}

StoreInit ==
  /\ ComponentsIdle
  /\ gameState = "MENU" /\ currentPuzzle = NoPuzzle /\ history = <<>> /\ input = <<>>
  /\ isLoading = FALSE /\ hintsRemaining = 0 /\ hintIndex = 0
  /\ error = Null /\ lastAction = NoAction /\ isProcessingRef = FALSE
  /\ store \in StoredStores /\ pending = <<>> /\ timers = 0 /\ reqCount = 0
  /\ historyLog = store.history    \* the archive as the mount effect loaded it

\* One call of safeLocalStorageSet(key, value) on the store as it was found;
\* the caller of a history write, saveToHistory, has made the written archive
\* the in-memory one just before (setHistoryLog(newLog), line 279).
StoreSet ==
  \E key \in {"history", "session"}, w \in WriteOutcomes :
    \E value \in WrittenValues(key, store) :
      LET r == safeLocalStorageSet(store, key, value, w) IN
      /\ setCall = NoSetCall
      /\ store' = r.store
      /\ setCall' = [key |-> key, value |-> value, w |-> w, before |-> store,
                     calls |-> r.calls, ok |-> r.ok, threw |-> r.threw]
      /\ historyLog' = IF key = "history" THEN value ELSE historyLog
      /\ UNCHANGED <<gameState, currentPuzzle, history, input, isLoading, hintsRemaining,
                     hintIndex, error, lastAction, isProcessingRef, pending,
                     timers, reqCount, now, lastSave, lastLoad, client, typed,
                     storeFull>>

StoreNext == StoreSet

StoreSpec == StoreInit /\ [][StoreNext]_vars

----------------------------------------------------------------------------
(* The input sanitizer on its own (lines 120-146). A string is a sequence   *)
(* of UTF-16 code units, each written as a one-unit name; the eight         *)
(* replace calls are applied in the order of the code.                      *)

\* Code units by the classes the regular expressions tell apart.
ControlUnits == {"NUL", "ESC", "DEL"}        \* U+0000, U+001B, U+007F
ZeroWidthUnits == {"ZWSP", "LSEP"}           \* U+200B, U+2028
SurrogateUnits == {"HIGH", "LOW"}            \* U+D83D, U+DE00
WordUnits ==
  {"a", "b", "c", "d", "e", "f", "i", "j", "k", "l", "m", "n", "o", "p", "r", "s", "t", "u", "v",
   "x", "S", "0", "_"}

\* Case folding of the i flag (ASCII letters only without the u flag).
Lower(c) == IF c = "S" THEN "s" ELSE c

SCRIPT == <<"s", "c", "r", "i", "p", "t">>
OpenScript == <<"<">> \o SCRIPT
CloseScript == <<"<", "/">> \o SCRIPT \o <<">">>
DangerousTags ==
  {SCRIPT, <<"i", "f", "r", "a", "m", "e">>, <<"o", "b", "j", "e", "c", "t">>,
   <<"e", "m", "b", "e", "d">>, <<"f", "o", "r", "m">>, <<"i", "n", "p", "u", "t">>,
   <<"b", "u", "t", "t", "o", "n">>, <<"l", "i", "n", "k">>, <<"m", "e", "t", "a">>}
Schemes ==
  {<<"j", "a", "v", "a">> \o SCRIPT \o <<":">>, <<"d", "a", "t", "a", ":">>}

\* The literal pat (in lower case) matches s at position i, ignoring case.
MatchesAt(s, i, pat) ==
  /\ i >= 1 /\ i + Len(pat) - 1 <= Len(s)
  /\ \A k \in 1..Len(pat) : Lower(s[i + k - 1]) = pat[k]

\* \b after a word unit at position j: the end of the string or a unit that
\* is not a word unit follows.
WordEndsAt(s, j) == j = Len(s) \/ s[j + 1] \notin WordUnits

\* The least of a set of positions, 0 when there is none.
FirstOf(S) == IF S = {} THEN 0 ELSE CHOOSE j \in S : \A k \in S : j <= k

\* The end of the match of /<script\b[^<]*(?:(?!<\/script>)<[^<]*)*<\/script>/i
\* starting at i, 0 when there is none: the body cannot pass a "</script>",
\* so the match ends with the first one after the opening.
ScriptBlockEnd(s, i) ==
  IF MatchesAt(s, i, OpenScript) /\ WordEndsAt(s, i + Len(OpenScript) - 1)
  THEN LET c == FirstOf({j \in (i + Len(OpenScript))..Len(s) :
                              MatchesAt(s, j, CloseScript)})
       IN IF c = 0 THEN 0 ELSE c + Len(CloseScript) - 1
  ELSE 0

\* The end of the match of /<(?:script|...|meta)\b[^>]*>/i starting at i.
DangerousTagEnd(s, i) ==
  IF /\ i <= Len(s) /\ s[i] = "<"
     /\ \E n \in DangerousTags : MatchesAt(s, i + 1, n) /\ WordEndsAt(s, i + Len(n))
  THEN FirstOf({j \in (i + 1)..Len(s) : s[j] = ">"})
  ELSE 0

\* The end of the match of /(javascript|data):/i starting at i.
SchemeEnd(s, i) ==
  IF \E n \in Schemes : MatchesAt(s, i, n)
  THEN i - 1 + Len(CHOOSE n \in Schemes : MatchesAt(s, i, n))
  ELSE 0

\* The end of the match of the named expression starting at i, 0 if none.
MatchEnd(re, s, i) ==
  CASE re = "scriptBlock" -> ScriptBlockEnd(s, i)
    [] re = "dangerousTag" -> DangerousTagEnd(s, i)
    [] re = "scheme" -> SchemeEnd(s, i)

\* replace(re, '') with the g flag: one pass from left to right, each match
\* dropped and the scan resumed after it.
RECURSIVE ReplaceAll(_, _, _)
ReplaceAll(re, s, i) ==
  IF i > Len(s) THEN <<>>
  ELSE LET e == MatchEnd(re, s, i) IN
       IF e # 0 THEN ReplaceAll(re, s, e + 1)
       ELSE <<s[i]>> \o ReplaceAll(re, s, i + 1)

\* replace(/<[^>]*$/, ''): the text from the leftmost "<" that no ">" follows
CutOpenTail(s) ==
  LET i == FirstOf({j \in 1..Len(s) :
                      s[j] = "<" /\ \A k \in (j + 1)..Len(s) : s[k] # ">"})
  IN IF i = 0 THEN s ELSE SubSeq(s, 1, i - 1)

\* replace(/^[^<]*>/, ''): the text up to the last ">" before the first "<"
CutClosingHead(s) ==
  LET f == FirstOf({j \in 1..Len(s) : s[j] = "<"})
      lim == IF f = 0 THEN Len(s) ELSE f - 1
      G == {j \in 1..lim : s[j] = ">"}
  IN IF G = {} THEN s
     ELSE SubSeq(s, 1 + (CHOOSE j \in G : \A k \in G : k <= j), Len(s))

NotControl(c) == c \notin ControlUnits
NotZeroWidth(c) == c \notin ZeroWidthUnits
NotSurrogate(c) == c \notin SurrogateUnits

\* sanitizeInput (lines 120-146)
sanitizeInput(x) ==
  LET s1 == ReplaceAll("scriptBlock", x, 1)
      s2 == ReplaceAll("dangerousTag", s1, 1)
      s3 == CutOpenTail(s2)
      s4 == CutClosingHead(s3)
      s5 == ReplaceAll("scheme", s4, 1)
      s6 == SelectSeq(s5, NotControl)
      s7 == SelectSeq(s6, NotZeroWidth)
  IN SelectSeq(s7, NotSurrogate)

\* What is typed or pasted into the field: up to MaxParts fragments in a row.
Fragments ==
  {OpenScript \o <<">">>, CloseScript, <<"<", "s", "c", "r">>, <<"i", "p", "t", ">">>,
   <<"<", "S", "c", "r", "i", "p", "t", " ">>, <<"<", "f", "o", "r", "m", ">">>,
   <<"j", "a", "v", "a">>, SCRIPT \o <<":">>, <<"d", "a", "t", "a", ":">>,
   <<"x">>, <<"<">>, <<">">>, <<"NUL">>, <<"TAB">>, <<"ZWSP">>, <<"HIGH">>, <<"LOW">>}

RECURSIVE TypedTexts(_)
TypedTexts(n) ==
  IF n = 0 THEN {<<>>}
  ELSE LET shorter == TypedTexts(n - 1) IN
       shorter \cup {t \o f : t \in shorter, f \in Fragments}

SanitizerFrame ==
  UNCHANGED <<gameState, currentPuzzle, history, isLoading, hintsRemaining, hintIndex,
              historyLog, error, lastAction, isProcessingRef, store, pending, timers,
              reqCount, now, lastSave, lastLoad, client, setCall, storeFull>>

\* The playing screen with an empty field, and the text about to arrive in a
\* change event of the field.
SanitizerInit ==
  /\ now = ClockStart /\ lastSave = NoSave /\ lastLoad = NoLoad
  /\ client = IdleClient /\ setCall = NoSetCall /\ storeFull = FALSE
  /\ gameState = "PLAYING" /\ currentPuzzle = [title |-> 1, difficulty |-> "Easy"]
  /\ history = <<>> /\ input = <<>>
  /\ isLoading = FALSE /\ hintsRemaining = Budget("Easy") /\ hintIndex = 0
  /\ historyLog = <<>> /\ error = Null /\ lastAction = NoAction
  /\ isProcessingRef = FALSE /\ store = EmptyStore /\ pending = <<>>
  /\ timers = 0 /\ reqCount = 0
  /\ \E x \in TypedTexts(MaxParts) :
       typed = [stage |-> "typed", value |-> x, once |-> <<>>, twice |-> <<>>]

\* onChange of the field (line 890): setInput(sanitizeInput(e.target.value))
InputChange ==
  /\ typed.stage = "typed"
  /\ input' = sanitizeInput(typed.value)
  /\ typed' = [typed EXCEPT !.stage = "once", !.once = input']
  /\ SanitizerFrame

\* A change event that delivers the field's own text once more
InputChangeAgain ==
  /\ typed.stage = "once"
  /\ input' = sanitizeInput(input)
  /\ typed' = [typed EXCEPT !.stage = "twice", !.twice = input']
  /\ SanitizerFrame

SanitizerNext == InputChange \/ InputChangeAgain

SanitizerSpec == SanitizerInit /\ [][SanitizerNext]_vars

----------------------------------------------------------------------------
(* Properties *)

\* A step that issues a new oracle request of the given kind (the handler's
\* guard accepted the action).
Issued(kind) ==
  /\ Len(pending') = Len(pending) + 1
  /\ SubSeq(pending', 1, Len(pending)) = pending
  /\ pending'[Len(pending')].kind = kind

HasFailedHint(h) == \E i \in 1..Len(h) : h[i].response = HintFailedResponse

EntriesFor(p) == {i \in 1..Len(historyLog) : historyLog[i].puzzle = p}

\* C1: hintsRemaining is never negative; an accepted startGame(d) sets it to
\* the budget of d (Easy 3, Medium 5, Hard 7); every accepted hint request
\* lowers it by exactly one; and no other step of a running page changes it,
\* in particular not the success or failure of the hint's oracle call. So
\* after N accepted hint requests it is budget(d) - N.
C1_HintBudget ==
  /\ [](hintsRemaining >= 0)
  /\ [][/\ Issued("hint") => hintsRemaining' = hintsRemaining - 1
        /\ Issued("start") =>
             hintsRemaining' = (CASE pending'[Len(pending')].difficulty = "Easy" -> 3
                                  [] pending'[Len(pending')].difficulty = "Medium" -> 5
                                  [] pending'[Len(pending')].difficulty = "Hard" -> 7)
        /\ (~Issued("hint") /\ ~Issued("start") /\ ~Reload) =>
             hintsRemaining' = hintsRemaining]_vars

\* A Hard game whose seven hint attempts are spent, one of them failed.
C1_Witness ==
  /\ gameState = "PLAYING"
  /\ currentPuzzle.difficulty = "Hard"
  /\ hintsRemaining = 0
  /\ CountType(history, {"hint"}) = 7
  /\ HasFailedHint(history)

AskCount(h) == CountType(h, {"question", "guess"})

\* The step in which a correct guess is processed (it schedules the delayed
\* transition) and the step of a surrender: the two ways a game finishes.
SolvedStep == timers' = timers + 1
FinishingStep == SolvedStep \/ Surrender

\* C2: the HistoryEntry created when a game finishes - by a correct guess or
\* by surrender - has interactionsCount equal to the number of question and
\* guess entries of the transcript at that moment, the winning guess included.
C2_InteractionsCount ==
  [][FinishingStep => historyLog'[1].interactionsCount = AskCount(history')]_vars

\* C3: no puzzle has more than one entry in the archive, and whenever the game
\* is FINISHED its puzzle has exactly one.
C3_OneEntryPerGame ==
  /\ \A i \in 1..Len(historyLog) : Cardinality(EntriesFor(historyLog[i].puzzle)) = 1
  /\ gameState = "FINISHED" => Cardinality(EntriesFor(currentPuzzle)) = 1

\* C4: the archive, in memory and under the history key, never has more than
\* 50 entries; whenever it changes, the new entry is at the front, the earlier
\* entries follow in their order, only the last of a full archive is dropped,
\* and the stored archive is the one in memory.
C4_ArchiveCap ==
  /\ [](Len(historyLog) <= 50 /\ Len(store.history) <= 50)
  /\ [][historyLog' # historyLog =>
          /\ Len(historyLog') = Min(Len(historyLog) + 1, 50)
          /\ \A i \in 2..Len(historyLog') : historyLog'[i] = historyLog[i - 1]
          /\ historyLog'[1].puzzle = currentPuzzle
          /\ store'.history = historyLog']_vars

\* An entry was added to a full archive: the new entry leads and the oldest
\* of the 50 earlier entries is gone.
C4_Witness ==
  /\ Len(historyLog) = 50
  /\ historyLog[1].puzzle.title < 100
  /\ historyLog[50] = PreloadedEntry(49)
  /\ store.history = historyLog

C7_AppendOnly ==
  [][\/ history' = history
     \/ /\ Len(history') = Len(history) + 1
        /\ SubSeq(history', 1, Len(history)) = history
        /\ Len(pending) = 1 /\ pending' = <<>>
        /\ pending[1].kind \in {"hint", "eval"}
        /\ history'[Len(history')].type =
             (IF pending[1].kind = "hint" THEN "hint"
              ELSE IF pending[1].isGuess THEN "guess" ELSE "question")
     \/ Issued("start") /\ history' = <<>>
     \/ Reload]_vars

\* A transcript of a question, then a guess, in the order they were issued.
C7_Witness ==
  /\ Len(history) >= 2
  /\ history[Len(history) - 1].type = "question"
  /\ history[Len(history)].type = "guess"

\* C8: whenever gameState is FINISHED, the current puzzle was ended by a
\* correct guess or a surrender (it has an archive entry) and no new game is
\* loading.
C8_FinishedOnlyEnded ==
  gameState = "FINISHED" =>
    /\ EntriesFor(currentPuzzle) # {}
    /\ \A i \in 1..Len(pending) : pending[i].kind # "start"

\* C9: when a correct guess is processed, a Solved entry with the current
\* puzzle is put at the front of the archive and gameState stays PLAYING; and
\* gameState is PLAYING for as long as the delayed transition is pending.
C9_SolvedThenDelay ==
  /\ [](timers > 0 => gameState = "PLAYING")
  /\ [][SolvedStep =>
          /\ historyLog'[1].status = "Solved"
          /\ historyLog'[1].puzzle = currentPuzzle
          /\ gameState' = "PLAYING"]_vars

\* C10: whenever gameState is FINISHED, no session snapshot is in the store.
C10_NoSnapshotWhenFinished ==
  gameState = "FINISHED" => store.session = NoSession

\* C11: whenever gameState is MENU or FINISHED - also after leaving PLAYING
\* through Exit - no session snapshot is in the store.
C11_NoSnapshotInMenuOrFinished ==
  gameState \in {"MENU", "FINISHED"} => store.session = NoSession

\* C12: a session snapshot in the store has gameState PLAYING and a puzzle.
C12_SnapshotIsPlaying ==
  store.session # NoSession =>
    /\ store.session.gameState = "PLAYING"
    /\ store.session.currentPuzzle # NoPuzzle

\* The snapshot of a game generated in this run is in the store, written
\* after an earlier game of this run was surrendered (which removed the
\* snapshot of that game).
C12_Witness ==
  /\ store.session # NoSession
  /\ store.session.currentPuzzle.title \in 1..MaxRequests
  /\ \E i \in 1..Len(historyLog) : historyLog[i].status = "Surrendered"
                                   /\ historyLog[i].puzzle.title \in 1..MaxRequests

\* C13: a page load less than one hour after saveGameSession wrote a snapshot
\* restores gameState, currentPuzzle, the transcript, input, hintsRemaining
\* and hintIndex exactly as they were in memory at the save.
C13_SessionRoundTrip ==
  [][(SessionLoad /\ lastSave # NoSave /\ now - lastSave.at < SessionTTL)
       => Memory' = lastSave.session]_vars

\* A game with no hints left and a game with an empty transcript can both be
\* saved; here the first was restored one millisecond before its expiry.
C13_Witness ==
  /\ lastLoad # NoLoad
  /\ lastLoad.found # NoSession
  /\ lastLoad.at - lastLoad.found.timestamp = SessionTTL - 1
  /\ gameState = "PLAYING" /\ hintsRemaining = 0 /\ hintIndex = 3
  /\ Len(history) = 3

\* C14: a page load that finds a snapshot whose timestamp is more than one
\* hour in the past removes it from the store and leaves the in-memory state
\* at its initial values.
C14_ExpiredDiscarded ==
  [][(SessionLoad /\ store.session # NoSession
        /\ now - store.session.timestamp > SessionTTL)
       => /\ store'.session = NoSession
          /\ gameState' = "MENU" /\ currentPuzzle' = NoPuzzle /\ history' = <<>>
          /\ hintsRemaining' = 0 /\ hintIndex' = 0]_vars

\* A load found a snapshot older than the window; afterwards the store has
\* none and the page shows the menu.
C14_Witness ==
  /\ lastLoad # NoLoad
  /\ lastLoad.found # NoSession
  /\ lastLoad.at - lastLoad.found.timestamp > SessionTTL
  /\ store.session = NoSession
  /\ gameState = "MENU" /\ currentPuzzle = NoPuzzle /\ history = <<>>

\* A step in which the outstanding request of the operation came to a response.
ResponseStep ==
  /\ client.state = "awaiting"
  /\ client'.state # "idle"
  /\ Len(client'.responses) = Len(client.responses) + 1
LastResponse == client'.responses[Len(client'.responses)]

\* C15: when a request fails with a model-unavailable failure and attempts
\* remain, the operation issues a new request with the next model of the
\* difficulty's list and throws nothing; the k-th request of an operation
\* (from 0) always uses the k-th model of the list; and an operation that
\* returns a result has thrown no error.
C15_FallbackModel ==
  /\ [](client.state # "idle" =>
         /\ \A k \in 1..Len(client.models) : client.models[k] = Models(client.difficulty)[k]
         /\ client.state = "returned" => client.thrown = Null)
  /\ [][(ResponseStep /\ LastResponse.kind = "modelUnavailable"
           /\ client.attemptCount < 2)
          => /\ client'.state = "awaiting"
             /\ client'.attemptCount = client.attemptCount + 1
             /\ Len(client'.models) = Len(client.models) + 1
             /\ client'.thrown = Null]_vars

\* A Hard operation whose first request failed with model-unavailable and
\* whose second request, to the second model of the list, succeeded.
C15_Witness ==
  /\ client.state = "returned"
  /\ client.difficulty = "Hard"
  /\ client.models = <<"gemini-pro", "gemini-1.5-pro">>
  /\ client.responses[1].kind = "modelUnavailable"
  /\ client.responses[2].kind = "ok"

C17_AuthQuotaPropagate ==
  [][(ResponseStep /\ LastResponse.kind \in {"auth", "quota"})
       => /\ client'.state = "thrown"
          /\ client'.thrown = (IF LastResponse.kind = "auth" THEN ErrApiKey ELSE ErrQuota)]_vars

\* C18: a malformed response - empty, unparsable after repair, or with
\* missing or invalid fields - is retried while attempts remain and ends the
\* operation with an error only on the last attempt.
C18_MalformedRetried ==
  [][(ResponseStep /\ LastResponse.kind \in Malformed)
       => IF client.attemptCount < maxRetries - 1
          THEN client'.state = "awaiting" /\ client'.attemptCount = client.attemptCount + 1
          ELSE client'.state = "thrown"]_vars

\* The original write of a call - its first setItem or the retried one -
\* succeeded.
OriginalWriteSucceeded ==
  \E i \in 1..Len(setCall.calls) :
    /\ setCall.calls[i].role \in {"first", "retry"}
    /\ setCall.calls[i].key = setCall.key
    /\ setCall.calls[i].value = setCall.value
    /\ setCall.calls[i].result = "ok"

\* C19: whatever the underlying store does at the first write, in the cleanup
\* or at the retry, safeLocalStorageSet lets no exception out; it returns true
\* exactly when a write of the value under the key succeeded, and the value
\* is then what the store holds under the key.
C19_SetNeverThrows ==
  setCall # NoSetCall =>
    /\ ~setCall.threw
    /\ setCall.ok <=> OriginalWriteSucceeded
    /\ setCall.ok => store[setCall.key] = setCall.value

\* The first write hit the quota, the trimming write succeeded and the retry
\* threw: false is returned and nothing escapes.
C19_Witness ==
  /\ setCall # NoSetCall
  /\ setCall.w.first = "quota" /\ setCall.w.get = "ok"
  /\ Len(setCall.calls) = 3 /\ setCall.calls[3].result = "quota"
  /\ ~setCall.ok /\ ~setCall.threw

\* C20: when the first write fails with quota-exceeded and the stored archive
\* has more than 10 entries, the adapter writes the first 10 entries of the
\* stored archive under the history key; when that write succeeds it makes
\* the original write once more, exactly once, and returns true exactly when
\* this retry succeeds - the store then holds the trimmed archive with the
\* value written over its key. This is so for session writes and for history
\* writes, also of a full archive with a new entry.
C20_TrimThenRetry ==
  (/\ setCall # NoSetCall
   /\ setCall.w.first = "quota" /\ setCall.w.get = "ok"
   /\ Len(setCall.before.history) > 10)
  => /\ Len(setCall.calls) >= 2
     /\ setCall.calls[2] = [role |-> "trim", key |-> "history",
                            value |-> SubSeq(setCall.before.history, 1, 10),
                            result |-> setCall.w.trim]
     /\ IF setCall.w.trim = "ok"
        THEN /\ Len(setCall.calls) = 3
             /\ setCall.calls[3] = [role |-> "retry", key |-> setCall.key,
                                    value |-> setCall.value, result |-> setCall.w.retry]
             /\ setCall.ok <=> setCall.w.retry = "ok"
             /\ store = [[setCall.before EXCEPT !.history = SubSeq(@, 1, 10)]
                            EXCEPT ![setCall.key] =
                                     IF setCall.w.retry = "ok" THEN setCall.value ELSE @]
        ELSE /\ Len(setCall.calls) = 2
             /\ ~setCall.ok
             /\ store = setCall.before

\* The 51-entry case: the write of a full archive with a new entry in front
\* hit the quota, the stored archive was trimmed, and the retry succeeded.
C20_Witness ==
  /\ setCall # NoSetCall
  /\ setCall.key = "history"
  /\ Len(setCall.before.history) = 50
  /\ Len(setCall.value) = 50 /\ setCall.value[1].puzzle.title = 1
  /\ setCall.w.first = "quota" /\ setCall.w.trim = "ok" /\ setCall.w.retry = "ok"
  /\ Len(setCall.calls[2].value) = 10
  /\ setCall.ok /\ store.history = setCall.value


\* C21: sanitizing twice equals sanitizing once: a text the sanitizer
\* returned is returned unchanged when it is sanitized again.
C21_Idempotent ==
  typed.stage = "twice" => typed.twice = typed.once

Contains(s, pat) == \E i \in 1..Len(s) : MatchesAt(s, i, pat)

\* C22: the sanitized text contains no "<script" (in any case), no surrogate
\* code unit and no control character other than tab, newline and carriage
\* return.
C22_CleanOutput ==
  typed.stage = "once" =>
    /\ ~Contains(typed.once, OpenScript)
    /\ \A i \in 1..Len(typed.once) : typed.once[i] \notin SurrogateUnits \cup ControlUnits

\* The step in which generateNewPuzzle returned a puzzle to startGame.
PuzzleReturned == GeneratePuzzleReturns /\ error' = Null

\* C23: an accepted startGame(d) moves gameState to LOADING in the same step,
\* with the transcript emptied, hintIndex 0 and hintsRemaining the budget of
\* d; when the oracle returns a puzzle, gameState becomes PLAYING and
\* currentPuzzle is the returned puzzle with difficulty d.
C23_StartGame ==
  [][/\ Issued("start") =>
          /\ gameState' = "LOADING"
          /\ history' = <<>>
          /\ hintIndex' = 0
          /\ hintsRemaining' = Budget(pending'[Len(pending')].difficulty)
     /\ PuzzleReturned =>
          /\ gameState' = "PLAYING"
          /\ Len(pending) = 1
          /\ currentPuzzle'.title = pending[1].title
          /\ currentPuzzle'.difficulty = pending[1].difficulty]_vars

\* A Hard game just generated: the new puzzle on the playing screen, no
\* transcript, seven hints, and its snapshot in the store.
C23_Witness ==
  /\ gameState = "PLAYING"
  /\ currentPuzzle = [title |-> 1, difficulty |-> "Hard"]
  /\ history = <<>> /\ hintIndex = 0 /\ hintsRemaining = 7
  /\ store.session # NoSession

\* The step in which generateNewPuzzle threw to startGame.
GenerationFailed == GeneratePuzzleReturns /\ error' # Null

StartPending == \E i \in 1..Len(pending) : pending[i].kind = "start"

\* C24: when puzzle generation fails, gameState goes from LOADING to MENU, an
\* error is recorded and the single-flight guard is released; gameState is
\* LOADING only while the generation call is outstanding.
C24_GenerationFails ==
  /\ [][GenerationFailed =>
          /\ gameState = "LOADING" /\ gameState' = "MENU"
          /\ error' # Null
          /\ ~isLoading' /\ ~isProcessingRef']_vars
  /\ [](gameState = "LOADING" => StartPending)

\* The step in which evaluateInteraction threw to handleAction.
EvaluationFailed == EvaluateReturns /\ error' # Null

\* C25: when the oracle call of an ask or solve fails, the input field holds
\* the submitted text again, an error is recorded, and the transcript, the
\* puzzle and the archive are those the action was issued with, gameState is
\* PLAYING and the hint counters are unchanged.
C25_FailureRestores ==
  [][EvaluationFailed =>
       /\ Len(pending) = 1
       /\ input' = pending[1].currentInput
       /\ error' # Null
       /\ history' = pending[1].history /\ history' = history
       /\ currentPuzzle' = pending[1].currentPuzzle
       /\ historyLog' = pending[1].historyLog
       /\ hintsRemaining' = hintsRemaining /\ hintIndex' = hintIndex
       /\ gameState' = "PLAYING"]_vars

\* C26: when an ask or solve fails at the oracle, lastAction is that action:
\* its kind (question or guess) and the submitted text, whether it was issued
\* by ASK, SOLVE or the Enter key.
C26_LastActionIsFailed ==
  [][EvaluationFailed =>
       /\ Len(pending) = 1
       /\ lastAction' = [type |-> IF pending[1].isGuess THEN "guess" ELSE "question",
                         input |-> pending[1].currentInput]]_vars

\* The states RetrySpec starts from are states of the game specification
\* (with one request counted).
RetryInitReached ==
  \E s \in PreloadedSessions \ {NoSession} :
    LET m == AfterOneHint(s) IN
    /\ gameState = m.gameState /\ currentPuzzle = m.currentPuzzle
    /\ history = m.history /\ input = <<>> /\ isLoading = FALSE
    /\ hintsRemaining = m.hintsRemaining /\ hintIndex = m.hintIndex
    /\ historyLog = <<>> /\ error = Null /\ lastAction = m.lastAction
    /\ isProcessingRef = FALSE
    /\ store = [history |-> NoHistory,
                session |-> SessionData(m.gameState, m.currentPuzzle, m.history, <<>>,
                                        m.hintsRemaining, m.hintIndex, ClockStart)]
    /\ pending = <<>> /\ timers = 0 /\ reqCount = 1

\* C27: Retry re-invokes the action whose failure is on display, with its
\* remembered input: after a failed ask or solve it issues an evaluation of
\* lastAction's text with lastAction's kind, after a failed hint a hint
\* request (none when no hint is left), after a failed startGame a puzzle
\* generation.
C27_RetryRepeatsFailed ==
  [][RetryLastAction =>
       /\ error = ErrProcess =>
            /\ Issued("eval")
            /\ pending'[Len(pending')].currentInput = lastAction.input
            /\ pending'[Len(pending')].isGuess = (lastAction.type = "guess")
       /\ error = ErrHint => Issued("hint") \/ hintsRemaining = 0
       /\ error = ErrGenerate => Issued("start")]_vars

HintCount(h) == CountType(h, {"hint"})

\* C28: every accepted hint request raises hintIndex by one and its return
\* appends one hint entry numbered with that hintIndex - the hint's text on
\* success, the failure-marked placeholder on error - so whenever no request
\* is in flight the transcript has hintIndex hint entries.
C28_HintEntries ==
  /\ [][/\ Issued("hint") => hintIndex' = hintIndex + 1
        /\ HintReturns =>
             /\ Len(history') = Len(history) + 1
             /\ history'[Len(history')].type = "hint"
             /\ history'[Len(history')].content \in
                  {ClueContent(hintIndex), FailedClueContent(hintIndex)}
             /\ (history'[Len(history')].response = HintFailedResponse) = (error' = ErrHint)]_vars
  /\ [](pending = <<>> => HintCount(history) = hintIndex)

\* C29: a surrender on the playing screen with puzzle P sets gameState to
\* FINISHED in that same step and puts at the front of the archive, in memory
\* and in the store, an entry with status Surrendered, puzzle P and hintsUsed
\* the number of hint entries of the transcript.
C29_Surrender ==
  [][Surrender =>
       /\ gameState = "PLAYING" /\ gameState' = "FINISHED"
       /\ Len(historyLog') >= 1
       /\ historyLog'[1].status = "Surrendered"
       /\ historyLog'[1].puzzle = currentPuzzle
       /\ historyLog'[1].hintsUsed = HintCount(history)
       /\ store'.history # NoHistory /\ store'.history[1] = historyLog'[1]]_vars

\* A surrendered Easy game whose transcript had two hints and one question.
C29_Witness ==
  /\ gameState = "FINISHED"
  /\ Len(history) = 3 /\ HintCount(history) = 2
  /\ Len(historyLog) >= 1
  /\ historyLog[1] = [puzzle |-> currentPuzzle, interactionsCount |-> 1,
                      hintsUsed |-> 2, status |-> "Surrendered"]

\* The step in which a correct guess came back from the oracle.
CorrectGuessReturned ==
  /\ EvaluateReturns
  /\ Len(history') = Len(history) + 1
  /\ history'[Len(history')].type = "guess"
  /\ history'[Len(history')].status = "Correct"

\* C30: with a store whose every write of a new value fails, the game goes on
\* as with a store that has room: saveToHistory and saveGameSession do not
\* throw and saveToHistory gives the same in-memory archive; a surrender
\* finishes the game and a correct guess schedules the finish, each with its
\* entry at the front of the in-memory archive and no error; and an error is
\* set only by a failed oracle call, which for an evaluation leaves the
\* transcript as it was.
C30_StorageFailuresSilent ==
  /\ [](\A w \in FailingOutcomes :
          /\ ~saveGameSession(gameState, currentPuzzle, history, input, hintsRemaining,
                              hintIndex, now, store, w).threw
          /\ \A status \in {"Solved", "Surrendered"} :
               LET full == saveToHistory(status, currentPuzzle, history, historyLog, store, w)
                   roomy == saveToHistory(status, currentPuzzle, history, historyLog, store,
                                          RoomyStore)
               IN ~full.threw /\ full.historyLog = roomy.historyLog)
  /\ [][/\ Surrender =>
             /\ gameState' = "FINISHED"
             /\ historyLog'[1] = HistoryEntry(currentPuzzle, history, "Surrendered")
             /\ error' = error
        /\ CorrectGuessReturned =>
             /\ timers' = timers + 1
             /\ historyLog'[1].status = "Solved"
             /\ historyLog'[1].puzzle = pending[1].currentPuzzle
             /\ error' = error /\ input' = input
        /\ (error' # error /\ error' # Null) =>
             /\ Len(pending') < Len(pending)
             /\ error' = ErrProcess => history' = history]_vars

\* A puzzle generated and solved on a full store: the finished screen, its
\* entry in the in-memory archive, and nothing of it in the store.
C30_Witness ==
  /\ storeFull
  /\ gameState = "FINISHED"
  /\ currentPuzzle # NoPuzzle /\ currentPuzzle.title = 1
  /\ Len(historyLog) >= 1
  /\ historyLog[1].status = "Solved" /\ historyLog[1].puzzle = currentPuzzle
  /\ store.history = NoHistory /\ store.session = NoSession
  /\ error = Null

\* The step in which an oracle call came to its end, and those in which it
\* ended with a failure: generation failed (back to the menu), evaluation
\* failed (no entry appended), the hint failed (placeholder appended).
OracleReturned == GeneratePuzzleReturns \/ EvaluateReturns \/ HintReturns
OracleFailed ==
  \/ GeneratePuzzleReturns /\ currentPuzzle' = currentPuzzle
  \/ EvaluateReturns /\ history' = history
  \/ HintReturns /\ HasFailedHint(<<history'[Len(history')]>>)

\* C31: every accepted oracle-backed action, also one issued through Retry,
\* releases the single-flight guard when its oracle call ends, on success and
\* on failure: whenever a flag of the guard is set, both flags are false
\* later on; the step in which the call ends clears both; and a failure
\* leaves an error.
C31_GuardReleased ==
  /\ (isLoading \/ isProcessingRef) ~> (~isLoading /\ ~isProcessingRef)
  /\ [][/\ OracleReturned => ~isLoading' /\ ~isProcessingRef'
        /\ OracleFailed => error' # Null]_vars

\* A failed evaluation issued through Retry has come back: the guard is
\* released and the error is set.
C31_Witness ==
  /\ reqCount = 2 /\ pending = <<>>
  /\ lastAction.type = "guess"
  /\ error = ErrProcess
  /\ ~isLoading /\ ~isProcessingRef

\* The step in which the oracle answered a question, or marked a guess
\* incorrect.
AnsweredNotCorrect ==
  /\ EvaluateReturns
  /\ history' # history
  /\ history'[Len(history')].status # "Correct"

\* C32: a successful ask, and a guess the oracle marks incorrect, append
\* exactly one entry - a question with status Yes, No or Irrelevant, or a
\* guess with status Incorrect - whose content is the submitted text, leave
\* gameState PLAYING and the puzzle, the hint counters and the archive as
\* they are, and schedule no delayed transition.
C32_AskAppendsOne ==
  [][AnsweredNotCorrect =>
       /\ Len(pending) = 1
       /\ Len(history') = Len(history) + 1
       /\ SubSeq(history', 1, Len(history)) = history
       /\ LET e == history'[Len(history')] IN
            /\ e.content = pending[1].currentInput
            /\ IF pending[1].isGuess
               THEN e.type = "guess" /\ e.status = "Incorrect"
               ELSE e.type = "question" /\ e.status \in {"Yes", "No", "Irrelevant"}
       /\ currentPuzzle' = currentPuzzle
       /\ hintsRemaining' = hintsRemaining /\ hintIndex' = hintIndex
       /\ historyLog' = historyLog /\ store'.history = store.history
       /\ timers' = timers
       /\ gameState = "PLAYING" /\ gameState' = "PLAYING"]_vars

\* C33: a navigation changes gameState and nothing else - puzzle, transcript,
\* input, hint counters, error, archive and store stay as they are - and
\* navigateTo of the state the machine is in changes nothing at all.
C33_NavigateFrame ==
  /\ [][Navigate =>
          /\ gameState' \in GameStates
          /\ UNCHANGED <<currentPuzzle, history, input, hintsRemaining, hintIndex, error,
                         historyLog, store, isLoading, lastAction>>]_vars
  /\ [](\A s \in GameStates : gameState = s => ~ENABLED (navigateTo(s) /\ vars' # vars))

\* Exit pressed on the playing screen with an error on display: the menu,
\* with the game, the draft, the error and the snapshot still there.
C33_Witness ==
  /\ gameState = "MENU"
  /\ currentPuzzle # NoPuzzle /\ history # <<>> /\ input = <<"a">>
  /\ error = ErrProcess
  /\ store.session # NoSession /\ store.session.input = <<"a">>

\* C34: whenever gameState is PLAYING and no request is in flight, on a store
\* that takes every write, the stored snapshot holds the puzzle, transcript,
\* input, hintsRemaining and hintIndex that are in memory.
C34_SnapshotCurrent ==
  (gameState = "PLAYING" /\ pending = <<>> /\ ~storeFull) =>
    /\ store.session # NoSession
    /\ store.session.currentPuzzle = currentPuzzle
    /\ store.session.history = history
    /\ store.session.input = input
    /\ store.session.hintsRemaining = hintsRemaining
    /\ store.session.hintIndex = hintIndex

\* A game with a draft in the field, a question answered and a hint taken in
\* this run, all of it in the snapshot.
C34_Witness ==
  /\ gameState = "PLAYING" /\ pending = <<>> /\ reqCount = 2
  /\ input = <<"a">> /\ store.session # NoSession /\ store.session.input = <<"a">>
  /\ Len(history) >= 2 /\ store.session.history = history
  /\ history[Len(history)].type = "hint" /\ history[Len(history) - 1].type = "question"

\* C35: a page load that finds under the session key a value that cannot be
\* parsed or that fails the validation removes it from the store and restores
\* nothing: gameState MENU, no puzzle, an empty transcript.
C35_CorruptDiscarded ==
  [][(LoadFound /\ store.session \in CorruptSnapshots)
       => /\ store'.session = NoSession
          /\ gameState' = "MENU" /\ currentPuzzle' = NoPuzzle /\ history' = <<>>
          /\ input' = <<>> /\ hintsRemaining' = 0 /\ hintIndex' = 0]_vars

\* C36: whenever gameState is PLAYING and no request is in flight, hintIndex
\* and hintsRemaining add up to the hint budget of the current puzzle's
\* difficulty: 3 for Easy, 5 for Medium, 7 for Hard.
C36_HintsAddUp ==
  (gameState = "PLAYING" /\ pending = <<>>) =>
    hintIndex + hintsRemaining =
      (CASE currentPuzzle.difficulty = "Easy" -> 3
         [] currentPuzzle.difficulty = "Medium" -> 5
         [] currentPuzzle.difficulty = "Hard" -> 7)

\* A game generated in this run in which a hint failed and the page was then
\* loaded again: one of its seven hints is used.
C36_Witness ==
  /\ gameState = "PLAYING" /\ pending = <<>>
  /\ currentPuzzle = [title |-> 1, difficulty |-> "Hard"]
  /\ hintIndex = 1 /\ hintsRemaining = 6
  /\ HasFailedHint(history)
  /\ error = Null /\ lastAction = NoAction

\* C37: the transcript is modified only while gameState is PLAYING or by the
\* reset of startGame (a page load, which builds the component anew, aside):
\* no Interaction is appended while gameState is FINISHED, MENU, RULES,
\* HISTORY or LOADING, not even by a request issued during the display delay
\* after a correct guess that completes after the delayed transition.
C37_TranscriptOnlyWhilePlaying ==
  [][(history' # history /\ ~Reload)
       => (gameState = "PLAYING" \/ (Issued("start") /\ history' = <<>>))]_vars

\* The retry button pressed on the error of a failed hint
RetryOfFailedHint == RetryLastAction /\ lastAction.type = "hint" /\ error = ErrHint

\* The request of a retried hint returns or throws
RetriedHintReturns ==
  /\ HintReturns
  /\ \E i \in 1..Len(pending) :
       /\ pending[i].kind = "hint" /\ pending[i].viaRetry
       /\ pending' = RemoveAt(pending, i)

\* C38: retrying a failed hint through retryLastAction is a new hint attempt:
\* with hints left it issues a hint request under a new hintIndex and takes one
\* more unit of hintsRemaining, and the request's completion appends a further
\* hint entry, numbered with the new index, behind a transcript that keeps the
\* failed placeholder; with hintsRemaining at 0 the retry issues no request and
\* leaves the transcript and both hint counters as they were.
C38_RetryHintIsNewAttempt ==
  [][/\ RetryOfFailedHint =>
          /\ HasFailedHint(history) /\ history' = history
          /\ IF hintsRemaining > 0
             THEN /\ Issued("hint")
                  /\ pending'[Len(pending')].currentHintIndex = hintIndex + 1
                  /\ hintIndex' = hintIndex + 1
                  /\ hintsRemaining' = hintsRemaining - 1
             ELSE /\ pending' = pending
                  /\ hintIndex' = hintIndex
                  /\ hintsRemaining' = hintsRemaining
     /\ RetriedHintReturns =>
          /\ Len(history') = Len(history) + 1
          /\ SubSeq(history', 1, Len(history)) = history
          /\ history'[Len(history')].type = "hint"
          /\ \E i \in 1..Len(pending) :
               /\ pending[i].kind = "hint" /\ pending[i].viaRetry
               /\ history'[Len(history')].content
                    \in {ClueContent(pending[i].currentHintIndex),
                         FailedClueContent(pending[i].currentHintIndex)}
          /\ hintIndex' = hintIndex /\ hintsRemaining' = hintsRemaining]_vars

\* The last hint of a Hard game is being fetched by a retry: the sixth hint
\* failed, its placeholder is in the transcript, and the retry took the
\* seventh index and the last unit of hintsRemaining.
C38_Witness ==
  /\ Len(pending) = 1 /\ pending[1].kind = "hint" /\ pending[1].viaRetry
  /\ pending[1].currentHintIndex = 7
  /\ hintIndex = 7 /\ hintsRemaining = 0
  /\ Len(history) = 6 /\ history[6].content = FailedClueContent(6)

\* C39: a set(key, value) call that returns false changes no stored key other
\* than the history key, and the only change it can leave behind is the
\* stored archive cut to its first 10 (most recent) entries; after a history
\* write that returns true the stored archive is the in-memory archive.
C39_FailedSetFrame ==
  setCall # NoSetCall =>
    /\ ~setCall.ok =>
         /\ store.session = setCall.before.session
         /\ \/ store.history = setCall.before.history
            \/ /\ Len(setCall.before.history) > 10
               /\ store.history = SubSeq(setCall.before.history, 1, 10)
    /\ (setCall.key = "history" /\ setCall.ok) => store.history = historyLog

\* A snapshot write that hit the quota, trimmed the 50 stored entries and
\* failed again: false is returned, the archive stays trimmed, and the
\* snapshot written earlier is still the stored one.
C39_Witness ==
  /\ setCall # NoSetCall
  /\ setCall.key = "session" /\ ~setCall.ok
  /\ Len(setCall.before.history) = 50 /\ Len(store.history) = 10
  /\ store.session = setCall.before.session /\ store.session # NoSession
  /\ store.session # setCall.value


=============================================================================
